---- MODULE Spec2Model ----
(***************************************************************************)
(* Model of the python-monolith repository:                                *)
(*   - ConfigManager (src/shared/utils.py): the dotted-key JSON store;     *)
(*   - AppRunner, RunningAppScreen and MonolithLauncher                    *)
(*     (src/apps/launcher/main.py): the process supervisor and the shell.  *)
(*   - AppDiscovery (src/apps/launcher/main.py): the scan of the project.  *)
(* The specifications of the module: SpecConfig drives the store and       *)
(* SpecExport the store with a mapping it handed out; Spec drives the      *)
(* launcher, SpecRefresh its refreshes and SpecView one running view;      *)
(* SpecDiscovery drives the scan.                                          *)
(***************************************************************************)
EXTENDS Integers, Sequences, FiniteSets, TLC

VARIABLES
    config,        \* ConfigManager._config, the in-memory document
    config_file,   \* what is on disk at ConfigManager.config_file
    constructed,   \* a ConfigManager instance exists (its __init__ returned)
    cfgLast,       \* the last ConfigManager call: its arguments and outcome
    cfgOps,        \* number of ConfigManager calls made so far
    exported,      \* the mapping that to_dict returned last, and what it shares
    procs,             \* every child process spawned so far, by pid
    running_processes, \* AppRunner.running_processes: name -> pid
    screens,           \* the pushed RunningAppScreens (empty: the list view)
    apps,              \* MonolithLauncher.apps
    app_list_widget,   \* MonolithLauncher.app_list_widget is not None
    scans,             \* what each discover_apps task in flight will deliver
    on_disk,           \* what a scan of the project tree delivers now
    newest,            \* what the discover_apps task started last delivers
    blocked,           \* the UI task sits in stdout.readline()
    crashed,           \* an exception escaped a handler of the shell
    last,              \* the last handler that ran, and its outcome
    tree,              \* the directories and files under project_root
    scan_pc,           \* AppDiscovery.discover_apps is idle or scanning
    pending_apps,      \* entries of apps/ the scan has not visited yet
    pending_scripts,   \* *.py files of scripts/ the scan has not visited yet
    found,             \* the local list `apps` of discover_apps
    outcomes           \* what each finished discover_apps call gave

cfgVars == <<config, config_file, constructed, cfgLast, cfgOps, exported>>

shellVars == <<procs, running_processes, screens, apps, app_list_widget,
               scans, on_disk, newest, blocked, crashed, last>>

scanVars == <<tree, scan_pc, pending_apps, pending_scripts, found, outcomes>>

vars == <<config, config_file, constructed, cfgLast, cfgOps, exported,
          procs, running_processes, screens, apps, app_list_widget,
          scans, on_disk, newest, blocked, crashed, last,
          tree, scan_pc, pending_apps, pending_scripts, found, outcomes>>

(***************************************************************************)
(* Bounds of the model.                                                    *)
(***************************************************************************)
MaxCfgOps == 4

MaxProcs == 2

MaxStops == 2

MaxScans == 2

MaxLines == 1
MaxFragments == 2
MaxScanRuns == 2
MaxOutput == 3

(***************************************************************************)
(* Python values.  Every value is a record of the same shape, so that any  *)
(* two values can be compared: kind is the Python type, val the integer of *)
(* an int, map the items of a dict (a function from segment to value).     *)
(* A segment is a string, written as the sequence of its characters.       *)
(***************************************************************************)
EmptyMap == [s \in {} |-> 0]

IntV(n) == [kind |-> "int", val |-> n, map |-> EmptyMap]

NoneV == [kind |-> "None", val |-> 0, map |-> EmptyMap]

ListV == [kind |-> "list", val |-> 0, map |-> EmptyMap]

TupleV == [kind |-> "tuple", val |-> 0, map |-> EmptyMap]

DictV(m) == [kind |-> "dict", val |-> 0, map |-> m]

EmptyDict == DictV(EmptyMap)

IsDict(v) == v.kind = "dict"

\* d[k] = v on a dict's items
Put(m, k, v) == [x \in (DOMAIN m) \cup {k} |-> IF x = k THEN v ELSE m[x]]

\* del d[k] on a dict's items
Remove(m, k) == [x \in (DOMAIN m) \ {k} |-> m[x]]

One(k, v) == [x \in {k} |-> v]

(***************************************************************************)
(* key.split('.'): the segments between the dots; a key of n dots has      *)
(* n + 1 segments, empty ones included ("" splits into one empty segment). *)
(***************************************************************************)
RECURSIVE SplitFrom(_, _, _)
SplitFrom(key, i, cur) ==
    IF i > Len(key) THEN <<cur>>
    ELSE IF key[i] = "." THEN <<cur>> \o SplitFrom(key, i + 1, <<>>)
    ELSE SplitFrom(key, i + 1, Append(cur, key[i]))

Split(key) == SplitFrom(key, 1, <<>>)

\* keys[:-1]
ButLast(keys) == SubSeq(keys, 1, Len(keys) - 1)

\* keys[-1]
Last(keys) == keys[Len(keys)]

(***************************************************************************)
(* ConfigManager.get: walk the segments; a non-dict or a missing segment   *)
(* returns the default.                                                    *)
(***************************************************************************)
\* a walk that answers None wherever the path ends early
RECURSIVE GetWalkNone(_, _, _)
GetWalkNone(value, keys, default) ==
    IF keys = <<>> THEN value
    ELSE IF IsDict(value) /\ Head(keys) \in DOMAIN value.map
         THEN GetWalkNone(value.map[Head(keys)], Tail(keys), default)
         ELSE NoneV

RECURSIVE GetWalk(_, _, _)
GetWalk(value, keys, default) ==
    IF keys = <<>> THEN value
    ELSE IF IsDict(value) /\ Head(keys) \in DOMAIN value.map
         THEN GetWalk(value.map[Head(keys)], Tail(keys), default)
         ELSE default

ConfigGet(doc, key, default) == GetWalk(doc, Split(key), default)

(***************************************************************************)
(* ConfigManager.set on a dict: the loop over keys[:-1] replaces a missing *)
(* or non-dict segment by {} and descends; the last segment is assigned.   *)
(***************************************************************************)
\* a set that returns at a non-dict segment, the way delete does
RECURSIVE SetWalkReturns(_, _, _)
SetWalkReturns(m, keys, value) ==
    IF Len(keys) = 1 THEN Put(m, keys[1], value)
    ELSE LET k == Head(keys)
         IN  IF k \in DOMAIN m /\ ~IsDict(m[k])
             THEN m
             ELSE Put(m, k, DictV(SetWalkReturns(
                                     IF k \in DOMAIN m THEN m[k].map
                                     ELSE EmptyMap,
                                     Tail(keys), value)))

RECURSIVE SetWalk(_, _, _)
SetWalk(m, keys, value) ==
    IF Len(keys) = 1 THEN Put(m, keys[1], value)
    ELSE LET k == Head(keys)
             child == IF k \notin DOMAIN m \/ ~IsDict(m[k])
                      THEN EmptyMap
                      ELSE m[k].map
         IN  Put(m, k, DictV(SetWalk(child, Tail(keys), value)))

\* The whole call.  _config is only known to be a dict by annotation: on a
\* list, a str, an int or None the first "k not in config", "config[k] = {}"
\* or "config[keys[-1]] = value" raises TypeError before anything is changed.
ConfigSet(doc, key, value) ==
    IF IsDict(doc)
    THEN [doc |-> DictV(SetWalk(doc.map, Split(key), value)), raised |-> ""]
    ELSE [doc |-> doc, raised |-> "TypeError"]

(***************************************************************************)
(* ConfigManager.delete on a dict: return at the first missing or non-dict *)
(* segment of keys[:-1]; delete the last segment if present.               *)
(***************************************************************************)
RECURSIVE DeleteWalk(_, _)
DeleteWalk(m, keys) ==
    IF Len(keys) = 1
    THEN IF keys[1] \in DOMAIN m THEN Remove(m, keys[1]) ELSE m
    ELSE LET k == Head(keys)
         IN  IF k \notin DOMAIN m \/ ~IsDict(m[k])
             THEN m
             ELSE Put(m, k, DictV(DeleteWalk(m[k].map, Tail(keys))))

\* The whole call.  On a list (holding no str) every "in" test is False and
\* the call returns; on an int or None the "in" test raises TypeError.
ConfigDelete(doc, key) ==
    IF IsDict(doc)
    THEN [doc |-> DictV(DeleteWalk(doc.map, Split(key))), raised |-> ""]
    ELSE IF doc.kind \in {"list", "tuple"}
    THEN [doc |-> doc, raised |-> ""]
    ELSE [doc |-> doc, raised |-> "TypeError"]

(***************************************************************************)
(* The file.  kind is "missing" (no file), "corrupt" (text that is not     *)
(* JSON), "undecodable" (bytes that are not UTF-8) or "json" (a JSON text, *)
(* whose value is json).  JSON values are object, array, number and null.  *)
(***************************************************************************)
JNull == [kind |-> "null", val |-> 0, map |-> EmptyMap]

JNumber(n) == [kind |-> "number", val |-> n, map |-> EmptyMap]

JArray == [kind |-> "array", val |-> 0, map |-> EmptyMap]

JObject(m) == [kind |-> "object", val |-> 0, map |-> m]

FileOf(kind, json) == [kind |-> kind, json |-> json]

\* json.dump: dict -> object, list and tuple -> array, int -> number
RECURSIVE JsonDump(_)
JsonDump(v) ==
    CASE v.kind = "dict" -> JObject([k \in DOMAIN v.map |-> JsonDump(v.map[k])])
      [] v.kind \in {"list", "tuple"} -> JArray
      [] v.kind = "int" -> JNumber(v.val)
      [] OTHER -> JNull

\* json.load: object -> dict, array -> list, number -> int
RECURSIVE JsonLoad(_)
JsonLoad(j) ==
    CASE j.kind = "object" -> DictV([k \in DOMAIN j.map |-> JsonLoad(j.map[k])])
      [] j.kind = "array" -> ListV
      [] j.kind = "number" -> IntV(j.val)
      [] OTHER -> NoneV

\* load_json_config: the parsed document, or the exception it raises
load_json_config(f) ==
    CASE f.kind = "missing" -> [doc |-> NoneV, raised |-> "FileNotFoundError"]
      [] f.kind = "corrupt" -> [doc |-> NoneV, raised |-> "JSONDecodeError"]
      [] f.kind = "undecodable" -> [doc |-> NoneV, raised |-> "UnicodeDecodeError"]
      [] OTHER -> [doc |-> JsonLoad(f.json), raised |-> ""]

\* ConfigManager.load: nothing when the file does not exist; otherwise the
\* parsed document, {} on JSONDecodeError or FileNotFoundError, and any
\* other exception propagates with _config untouched.
ConfigLoad(doc, f) ==
    IF f.kind = "missing" THEN [doc |-> doc, raised |-> ""]
    ELSE LET r == load_json_config(f)
         IN  IF r.raised = "" THEN [doc |-> r.doc, raised |-> ""]
             ELSE IF r.raised \in {"JSONDecodeError", "FileNotFoundError"}
             THEN [doc |-> EmptyDict, raised |-> ""]
             ELSE [doc |-> doc, raised |-> r.raised]

\* save_json_config: the file holds the dump of the document
save_json_config(doc) == FileOf("json", JsonDump(doc))

(***************************************************************************)
(* Inputs of the store: dotted keys, values, defaults, initial files.      *)
(***************************************************************************)
SegA == <<"a">>

SegB == <<"b">>

DottedKeys ==
    { <<"a">>, <<"b">>, <<"a", ".", "b">>, <<"b", ".", "a">>,
      <<"a", ".", "b", ".", "a">>, <<"a", ".">>, <<>> }

SetValues == { IntV(1), TupleV, DictV(One(SegB, IntV(2))) }

Defaults == { NoneV, IntV(7) }

InitialFiles ==
    { FileOf("missing", JNull), FileOf("corrupt", JNull),
      FileOf("undecodable", JNull),
      FileOf("json", JObject(EmptyMap)),
      FileOf("json", JObject(One(SegA, JNumber(1)))),
      FileOf("json", JObject(One(SegA, JObject(One(SegB, JNumber(2)))))),
      FileOf("json", JArray),
      FileOf("json", JNumber(1)) }

Call(op, key, val, res, raised) ==
    [op |-> op, key |-> key, val |-> val, res |-> res, raised |-> raised]

(***************************************************************************)
(* The launcher: descriptors, child processes, screens.                    *)
(***************************************************************************)
Names == {"cli", "web"}

\* The AppInfo of a discovered application; port says whether it has one.
AppInfo(name) ==
    [name |-> name,
     type |-> IF name = "web" THEN "web" ELSE "cli",
     port |-> (name = "web")]

\* What one discover_apps call can return, sorted by (type, name).
ScanResults == { <<"cli">>, <<"cli", "web">> }

\* what the executor hands back to MonolithLauncher.discover_apps: the list
\* AppDiscovery.discover_apps returned, or the exception that left it
Delivery(raised, list) == [raised |-> raised, apps |-> list]

\* what a scan can deliver after the project tree has changed
Deliveries ==
    { Delivery(FALSE, list) : list \in ScanResults \cup {<<>>} }
      \cup { Delivery(TRUE, <<>>) }

\* A child process right after Popen: alive, nothing written to its pipe.
\* out is the number of lines in the pipe, written the number ever written.
Popen(name) == [name |-> name, status |-> "alive", out |-> 0, written |-> 0]

\* A RunningAppScreen right after __init__; process 0 is None.
RunningAppScreen(name) ==
    [name |-> name, process |-> 0, mounted |-> FALSE, timer |-> FALSE,
     log |-> <<>>]

\* What a handler did: op and name say which handler ran for which
\* descriptor, input is what the child or the system answered (the spawn
\* succeeded, the child obeyed the termination request), the rest is the
\* outcome.
Event(op, name, input, pid, ret, raised, timedOut, killed) ==
    [op |-> op, name |-> name, input |-> input, pid |-> pid, ret |-> ret,
     raised |-> raised, timedOut |-> timedOut, killed |-> killed]

Did(op, name) == Event(op, name, FALSE, 0, FALSE, FALSE, FALSE, FALSE)

(***************************************************************************)
(* AppDiscovery (src/apps/launcher/main.py).  File names and file texts    *)
(* are sequences of characters, so that the substring tests, the port      *)
(* patterns and the sort on (type, name) are computed as the code computes *)
(* them.                                                                   *)
(***************************************************************************)
UpperCase == <<"A", "B", "C", "D", "E", "F", "G", "H", "I", "J", "K", "L", "M",
               "N", "O", "P", "Q", "R", "S", "T", "U", "V", "W", "X", "Y", "Z">>
LowerCase == <<"a", "b", "c", "d", "e", "f", "g", "h", "i", "j", "k", "l", "m",
               "n", "o", "p", "q", "r", "s", "t", "u", "v", "w", "x", "y", "z">>
Digits == <<"0", "1", "2", "3", "4", "5", "6", "7", "8", "9">>

\* the characters of the model in code point order, as str comparison uses it
CodePoints == <<"\t", "\n", " ", "\"", "#", "(", ")", "-", ".", "/">> \o Digits
                 \o <<":", "=", "@">> \o UpperCase \o <<"_">> \o LowerCase

ord(c) == CHOOSE i \in DOMAIN CodePoints : CodePoints[i] = c

IsDigit(c) == \E i \in DOMAIN Digits : Digits[i] = c

\* \s of the regular expressions
IsSpace(c) == c \in {" ", "\t", "\n"}

LowerChar(c) ==
    IF \E i \in DOMAIN UpperCase : UpperCase[i] = c
    THEN LowerCase[CHOOSE i \in DOMAIN UpperCase : UpperCase[i] = c]
    ELSE c

\* str.lower()
lower(text) == [i \in 1..Len(text) |-> LowerChar(text[i])]

\* text[i:i+len(lit)] == lit
LiteralAt(text, i, lit) ==
    /\ i >= 1
    /\ i + Len(lit) - 1 <= Len(text)
    /\ SubSeq(text, i, i + Len(lit) - 1) = lit

\* `lit in text`
Contains(text, lit) == \E i \in 1..(Len(text) + 1) : LiteralAt(text, i, lit)

\* str < str: the first differing character decides, a proper prefix is less
RECURSIVE StrLess(_, _)
StrLess(a, b) ==
    IF b = <<>> THEN FALSE
    ELSE IF a = <<>> THEN TRUE
    ELSE IF a[1] # b[1] THEN ord(a[1]) < ord(b[1])
    ELSE StrLess(Tail(a), Tail(b))

\* str(int): the value of a run of decimal digits
RECURSIVE int(_)
int(digits) ==
    IF digits = <<>> THEN 0
    ELSE 10 * int(ButLast(digits))
           + ((CHOOSE i \in DOMAIN Digits : Digits[i] = Last(digits)) - 1)

tui == <<"t", "u", "i">>
gui == <<"g", "u", "i">>
cli == <<"c", "l", "i">>
web == <<"w", "e", "b">>
script == <<"s", "c", "r", "i", "p", "t">>

TuiMarkers == { <<"f", "r", "o", "m", " ", "t", "e", "x", "t", "u", "a", "l">>,
                <<"i", "m", "p", "o", "r", "t", " ", "t", "e", "x", "t", "u", "a", "l">>,
                <<"t", "e", "x", "t", "u", "a", "l", ".", "a", "p", "p">>,
                <<"t", "e", "x", "t", "u", "a", "l", ".", "w", "i", "d", "g", "e", "t", "s">> }

GuiMarkers == { <<"f", "r", "o", "m", " ", "n", "i", "c", "e", "g", "u", "i">>,
                <<"i", "m", "p", "o", "r", "t", " ", "n", "i", "c", "e", "g", "u", "i">>,
                <<"n", "i", "c", "e", "g", "u", "i">>,
                <<"t", "k", "i", "n", "t", "e", "r">>,
                <<"p", "y", "g", "a", "m", "e">>,
                <<"k", "i", "v", "y">>,
                <<"p", "y", "s", "i", "d", "e">>,
                <<"p", "y", "q", "t">> }

CliMarkers == { <<"f", "r", "o", "m", " ", "t", "y", "p", "e", "r">>,
                <<"i", "m", "p", "o", "r", "t", " ", "t", "y", "p", "e", "r">>,
                <<"t", "y", "p", "e", "r", ".", "t", "y", "p", "e", "r">>,
                <<"@", "a", "p", "p", ".", "c", "o", "m", "m", "a", "n", "d">>,
                <<"c", "l", "i", "c", "k", ".", "c", "o", "m", "m", "a", "n", "d">>,
                <<"a", "r", "g", "p", "a", "r", "s", "e", ".", "a", "r", "g", "u", "m", "e", "n", "t", "p", "a", "r", "s", "e", "r">> }

WebMarkers == { <<"f", "a", "s", "t", "a", "p", "i">>,
                <<"f", "r", "o", "m", " ", "f", "a", "s", "t", "a", "p", "i">>,
                <<"f", "l", "a", "s", "k">>,
                <<"d", "j", "a", "n", "g", "o">>,
                <<"s", "t", "a", "r", "l", "e", "t", "t", "e">> }

HasAny(content_lower, markers) == \E m \in markers : Contains(content_lower, m)

\* a classification that looks at the web markers before the others
determine_app_type_web_first(content, subdirs) ==
    LET content_lower == lower(content)
    IN  IF HasAny(content_lower, WebMarkers) THEN web
        ELSE IF HasAny(content_lower, TuiMarkers) THEN tui
        ELSE IF HasAny(content_lower, GuiMarkers) THEN gui
        ELSE IF HasAny(content_lower, CliMarkers) THEN cli
        ELSE IF "templates" \in subdirs \/ "static" \in subdirs THEN web
        ELSE script

\* _determine_app_type(content, app_path); subdirs: the subdirectories of
\* app_path that exist
determine_app_type(content, subdirs) ==
    LET content_lower == lower(content)
    IN  IF HasAny(content_lower, TuiMarkers) THEN tui
        ELSE IF HasAny(content_lower, GuiMarkers) THEN gui
        ELSE IF HasAny(content_lower, CliMarkers) THEN cli
        ELSE IF HasAny(content_lower, WebMarkers) THEN web
        ELSE IF "templates" \in subdirs \/ "static" \in subdirs THEN web
        ELSE script

(***************************************************************************)
(* _extract_port: four patterns, tried in order, matched without regard to *)
(* case.  Each pattern is a literal, an optional run of a character class  *)
(* followed by a second literal, an optional run of [=\s], and the group   *)
(* (\d+).                                                                  *)
(***************************************************************************)
port_patterns ==
    << [lead |-> <<"p", "o", "r", "t">>,    gap |-> "",      mid |-> <<>>,    seps |-> TRUE],
       [lead |-> <<".", "r", "u", "n", "(">>,   gap |-> "[^)]*", mid |-> <<"p", "o", "r", "t">>, seps |-> TRUE],
       [lead |-> <<"-", "-", "p", "o", "r", "t">>,  gap |-> "",      mid |-> <<>>,    seps |-> TRUE],
       [lead |-> <<"u", "v", "i", "c", "o", "r", "n">>, gap |-> ".*",    mid |-> <<":">>,   seps |-> FALSE] >>

GapAllows(gap, c) ==
    CASE gap = "[^)]*" -> c # ")"
      [] gap = ".*"    -> c # "\n"
      [] OTHER         -> FALSE

\* the end of the longest run of [=\s] that starts at k
RECURSIVE SkipSeps(_, _)
SkipSeps(text, k) ==
    IF k <= Len(text) /\ (text[k] = "=" \/ IsSpace(text[k]))
    THEN SkipSeps(text, k + 1) ELSE k

\* the end of the longest run of \d that starts at k
RECURSIVE SkipDigits(_, _)
SkipDigits(text, k) ==
    IF k <= Len(text) /\ IsDigit(text[k]) THEN SkipDigits(text, k + 1) ELSE k

\* what ([=\s]*)(\d+) captures at k; empty when it does not match there
GroupAt(text, p, k) ==
    LET d == IF p.seps THEN SkipSeps(text, k) ELSE k
    IN  SubSeq(text, d, SkipDigits(text, d) - 1)

\* where the second literal can stand for a match whose first literal ended
\* before k; low is the text in lower case
MidPositions(text, low, p, k) ==
    { j \in k..(Len(text) + 1) :
        /\ \A m \in k..(j - 1) : GapAllows(p.gap, text[m])
        /\ LiteralAt(low, j, p.mid)
        /\ GroupAt(text, p, j + Len(p.mid)) # <<>> }

Minimum(S) == CHOOSE x \in S : \A y \in S : x <= y
Maximum(S) == CHOOSE x \in S : \A y \in S : x >= y

\* re.findall(pattern, content, re.IGNORECASE)[0], or empty without a match:
\* the leftmost match, its run of the class as long as possible
FirstMatch(p, content) ==
    LET low == lower(content)
        starts == { i \in 1..Len(content) :
                      /\ LiteralAt(low, i, p.lead)
                      /\ MidPositions(content, low, p, i + Len(p.lead)) # {} }
    IN  IF starts = {} THEN <<>>
        ELSE LET i == Minimum(starts)
                 j == Maximum(MidPositions(content, low, p, i + Len(p.lead)))
             IN  GroupAt(content, p, j + Len(p.mid))

\* the loop over port_patterns from the n-th on; int() takes every run of
\* digits, so the ValueError branch is never taken
RECURSIVE PortFrom(_, _)
PortFrom(content, n) ==
    IF n > Len(port_patterns) THEN NoneV
    ELSE LET m == FirstMatch(port_patterns[n], content)
         IN  IF m # <<>> THEN IntV(int(m)) ELSE PortFrom(content, n + 1)

extract_port(content) == PortFrom(content, 1)

(***************************************************************************)
(* _extract_description                                                    *)
(***************************************************************************)
\* str.split(sep) for a separator of one character
RECURSIVE SplitOn(_, _)
SplitOn(text, sep) ==
    IF \A i \in 1..Len(text) : text[i] # sep THEN <<text>>
    ELSE LET i == Minimum({ n \in 1..Len(text) : text[n] = sep })
         IN  <<SubSeq(text, 1, i - 1)>> \o SplitOn(SubSeq(text, i + 1, Len(text)), sep)

\* str.strip()
RECURSIVE strip(_)
strip(text) ==
    IF text = <<>> THEN text
    ELSE IF IsSpace(text[1]) THEN strip(Tail(text))
    ELSE IF IsSpace(Last(text)) THEN strip(ButLast(text))
    ELSE text

startswith(text, lit) == LiteralAt(text, 1, lit)
endswith(text, lit) == LiteralAt(text, Len(text) - Len(lit) + 1, lit)

\* ' '.join(lines)
RECURSIVE join(_)
join(lines) ==
    IF lines = <<>> THEN <<>>
    ELSE IF Len(lines) = 1 THEN lines[1]
    ELSE lines[1] \o <<" ">> \o join(Tail(lines))

Quotes == <<"\"", "\"", "\"">>

\* the first loop over the lines from the n-th on: found is set when a
\* docstring on one line is returned at once, else lines are the collected
\* docstring_lines
RECURSIVE DocstringFrom(_, _, _, _)
DocstringFrom(lines, n, in_docstring, docstring_lines) ==
    IF n > Len(lines) THEN [found |-> FALSE, text |-> <<>>, lines |-> docstring_lines]
    ELSE LET stripped == strip(lines[n])
         IN  IF ~in_docstring /\ startswith(stripped, Quotes)
             THEN IF endswith(stripped, Quotes) /\ Len(stripped) > 6
                  THEN [found |-> TRUE,
                        text |-> strip(SubSeq(stripped, 4, Len(stripped) - 3)),
                        lines |-> docstring_lines]
                  ELSE DocstringFrom(lines, n + 1, TRUE, docstring_lines)
             ELSE IF in_docstring
             THEN IF endswith(stripped, Quotes)
                  THEN [found |-> FALSE, text |-> <<>>, lines |-> docstring_lines]
                  ELSE DocstringFrom(lines, n + 1, TRUE,
                                     Append(docstring_lines, stripped))
             ELSE DocstringFrom(lines, n + 1, FALSE, docstring_lines)

extract_description(content) ==
    LET lines == SplitOn(content, "\n")
        doc == DocstringFrom(lines, 1, FALSE, <<>>)
        comments == { n \in 1..Len(lines) :
                        /\ startswith(strip(lines[n]), <<"#">>)
                        /\ Len(strip(lines[n])) > 2 }
    IN  IF doc.found THEN doc.text
        ELSE IF doc.lines # <<>> THEN strip(join(doc.lines))
        ELSE IF comments # {} THEN strip(Tail(strip(lines[Minimum(comments)])))
        ELSE <<"P", "y", "t", "h", "o", "n", " ", "a", "p", "p", "l", "i", "c", "a", "t", "i", "o", "n">>

(***************************************************************************)
(* _generate_command                                                       *)
(***************************************************************************)
\* str.replace('/', '.')
Dotted(path) == [i \in 1..Len(path) |-> IF path[i] = "/" THEN "." ELSE path[i]]

\* relative_path is apps/<name>; main_content is main.py read once more
generate_command(name, app_type, main_content) ==
    LET relative_path == <<"a", "p", "p", "s", "/">> \o name
    IN  IF app_type = web
        THEN IF Contains(lower(main_content), <<"f", "a", "s", "t", "a", "p", "i">>)
             THEN <<"u", "v", " ", "r", "u", "n", " ", "u", "v", "i", "c", "o", "r", "n", " ">> \o Dotted(relative_path) \o <<".", "m", "a", "i", "n", ":", "a", "p", "p", " ", "-", "-", "r", "e", "l", "o", "a", "d">>
             ELSE <<"u", "v", " ", "r", "u", "n", " ", "p", "y", "t", "h", "o", "n", " ", "-", "m", " ">> \o Dotted(relative_path) \o <<".", "m", "a", "i", "n">>
        ELSE IF app_type \in {cli, tui, gui}
        THEN <<"u", "v", " ", "r", "u", "n", " ", "p", "y", "t", "h", "o", "n", " ", "-", "m", " ">> \o Dotted(relative_path) \o <<".", "m", "a", "i", "n">>
        ELSE <<"u", "v", " ", "r", "u", "n", " ", "p", "y", "t", "h", "o", "n", " ">> \o relative_path \o <<"/", "m", "a", "i", "n", ".", "p", "y">>

(***************************************************************************)
(* The tree under project_root, and the analysis of one candidate.         *)
(***************************************************************************)
\* an entry of apps/: main says what apps/<name>/main.py is, text what it
\* holds, subdirs which of templates and static exist; a directory that is
\* not searchable refuses every lookup inside it
AppEntry(name, is_dir, searchable, main, text, subdirs) ==
    [name |-> name, is_dir |-> is_dir, searchable |-> searchable,
     main |-> main, text |-> text, subdirs |-> subdirs]

\* an entry of scripts/
ScriptEntry(name, main, text) == [name |-> name, main |-> main, text |-> text]

\* the AppInfo that discovery builds
AppInfoOf(name, path, type, main_file, description, command, port) ==
    [name |-> name, path |-> path, type |-> type, main_file |-> main_file,
     description |-> description, command |-> command, port |-> port]

AppsDir == <<"a", "p", "p", "s">>
ScriptsDir == <<"s", "c", "r", "i", "p", "t", "s">>
MainPy == <<"m", "a", "i", "n", ".", "p", "y">>

\* Path.stem: the name without its last suffix
stem(name) ==
    LET dots == { i \in 1..Len(name) : name[i] = "." }
    IN  IF dots = {} THEN name
        ELSE LET i == Maximum(dots)
             IN  IF 1 < i /\ i < Len(name) THEN SubSeq(name, 1, i - 1) ELSE name

\* what one analysis gives: the exception left it, or info holds the AppInfo
\* (empty for None)
Analysed(raised, info) == [raised |-> raised, info |-> info]

\* an analysis that classifies a directory by its subdirectories before it
\* looks for main.py
analyze_app_by_structure(e) ==
    IF e.main # "text"
    THEN IF e.subdirs # {}
         THEN Analysed(FALSE, <<AppInfoOf(e.name, <<AppsDir, e.name>>, web,
                                          <<AppsDir, e.name, MainPy>>,
                                          <<"P", "y", "t", "h", "o", "n", " ", "a", "p", "p", "l", "i", "c", "a", "t", "i", "o", "n">>,
                                          generate_command(e.name, web, <<>>),
                                          NoneV)>>)
         ELSE Analysed(FALSE, <<>>)
    ELSE LET app_type == determine_app_type(e.text, e.subdirs)
         IN  Analysed(FALSE,
               <<AppInfoOf(e.name, <<AppsDir, e.name>>, app_type,
                           <<AppsDir, e.name, MainPy>>,
                           extract_description(e.text),
                           generate_command(e.name, app_type, e.text),
                           IF app_type = web THEN extract_port(e.text) ELSE NoneV)>>)

\* _analyze_app(app_path): main_file.exists() stands before the try, and in a
\* directory that is not searchable it raises PermissionError; a read that
\* fails raises inside the try and gives None
analyze_app(e) ==
    IF ~e.searchable THEN Analysed(TRUE, <<>>)
    ELSE IF e.main = "absent" THEN Analysed(FALSE, <<>>)
    ELSE IF e.main # "text" THEN Analysed(FALSE, <<>>)
    ELSE LET app_type == determine_app_type(e.text, e.subdirs)
         IN  Analysed(FALSE,
               <<AppInfoOf(e.name, <<AppsDir, e.name>>, app_type,
                           <<AppsDir, e.name, MainPy>>,
                           extract_description(e.text),
                           generate_command(e.name, app_type, e.text),
                           IF app_type = web THEN extract_port(e.text) ELSE NoneV)>>)

\* _analyze_script(script_path): everything is inside the try
analyze_script(e) ==
    IF e.main # "text" THEN Analysed(FALSE, <<>>)
    ELSE Analysed(FALSE,
           <<AppInfoOf(stem(e.name), <<ScriptsDir>>, script,
                       <<ScriptsDir, e.name>>,
                       extract_description(e.text),
                       <<"u", "v", " ", "r", "u", "n", " ", "p", "y", "t", "h", "o", "n", " ", "s", "c", "r", "i", "p", "t", "s", "/">> \o e.name,
                       NoneV)>>)

\* the key (x.type, x.name) of a is less than that of b
KeyLess(a, b) ==
    \/ StrLess(a.type, b.type)
    \/ a.type = b.type /\ StrLess(a.name, b.name)

\* sorted() is stable: x goes before the first element with a greater key
Insert(seq, x) ==
    LET greater == { i \in 1..Len(seq) : KeyLess(x, seq[i]) }
    IN  IF greater = {} THEN Append(seq, x)
        ELSE LET i == Minimum(greater)
             IN  SubSeq(seq, 1, i - 1) \o <<x>> \o SubSeq(seq, i, Len(seq))

\* a scan that returns the descriptors in the order it found them
sorted_as_found(seq) == seq

\* sorted(apps, key=lambda x: (x.type, x.name))
RECURSIVE sorted(_)
sorted(seq) ==
    IF seq = <<>> THEN <<>> ELSE Insert(sorted(ButLast(seq)), Last(seq))

\* scripts_dir.glob("*.py")
glob_py(entries) == { e \in entries : endswith(e.name, <<".", "p", "y">>) }

(***************************************************************************)
(* The trees discovery is run on.                                          *)
(***************************************************************************)
Fragments ==
    { <<"i", "m", "p", "o", "r", "t", " ", "t", "e", "x", "t", "u", "a", "l", "\n">>,
      <<"f", "r", "o", "m", " ", "n", "i", "c", "e", "g", "u", "i", " ", "i", "m", "p", "o", "r", "t", " ", "u", "i", "\n">>,
      <<"i", "m", "p", "o", "r", "t", " ", "t", "y", "p", "e", "r", "\n">>,
      <<"f", "r", "o", "m", " ", "f", "a", "s", "t", "a", "p", "i", " ", "i", "m", "p", "o", "r", "t", " ", "F", "a", "s", "t", "A", "P", "I", "\n">>,
      <<"p", "o", "r", "t", "=", "0", "\n">>,
      <<"P", "O", "R", "T", " ", "=", " ", "8", "0", "0", "0", "\n">>,
      <<"u", "v", "i", "c", "o", "r", "n", " ", "a", ":", "8", "0", "\n">>,
      <<"\"", "\"", "\"", "D", "e", "m", "o", "\"", "\"", "\"", "\n">>,
      <<"#", " ", "d", "e", "m", "o", "\n">> }

\* the texts made of at most n fragments
RECURSIVE TextsUpTo(_)
TextsUpTo(n) ==
    IF n = 0 THEN {<<>>}
    ELSE TextsUpTo(n - 1) \cup { t \o f : t \in TextsUpTo(n - 1), f \in Fragments }

Texts == TextsUpTo(MaxFragments)

Tree(has_apps, app_entries, has_scripts, script_entries) ==
    [apps    |-> [exists |-> has_apps, entries |-> app_entries],
     scripts |-> [exists |-> has_scripts, entries |-> script_entries]]

\* one application directory with any text, next to one script
RichTrees ==
    { Tree(TRUE, {AppEntry(<<"w", "e", "b">>, TRUE, TRUE, "text", t, d)},
           TRUE, {ScriptEntry(<<"u", "t", "i", "l", ".", "p", "y">>, "text", <<"i", "m", "p", "o", "r", "t", " ", "t", "e", "x", "t", "u", "a", "l", "\n">>)}) :
        t \in Texts, d \in {{}, {"templates"}, {"static"}} }

NoEntry == {}

CliDirs ==
    { NoEntry,
      {AppEntry(<<"c", "l", "i">>, TRUE, TRUE, "text", <<"i", "m", "p", "o", "r", "t", " ", "t", "y", "p", "e", "r", "\n">>, {})},
      {AppEntry(<<"c", "l", "i">>, TRUE, TRUE, "text", <<"#", " ", "d", "e", "m", "o", "\n">>, {})},
      {AppEntry(<<"c", "l", "i">>, TRUE, TRUE, "absent", <<>>, {"templates"})},
      {AppEntry(<<"c", "l", "i">>, TRUE, TRUE, "undecodable", <<>>, {})},
      {AppEntry(<<"c", "l", "i">>, TRUE, FALSE, "text", <<"i", "m", "p", "o", "r", "t", " ", "t", "y", "p", "e", "r", "\n">>, {})} }

WebDirs ==
    { NoEntry,
      {AppEntry(<<"w", "e", "b">>, TRUE, TRUE, "text",
                <<"f", "r", "o", "m", " ", "f", "a", "s", "t", "a", "p", "i", " ", "i", "m", "p", "o", "r", "t", " ", "F", "a", "s", "t", "A", "P", "I", "\n", "P", "O", "R", "T", " ", "=", " ", "8", "0", "0", "0", "\n">>, {"templates", "static"})},
      {AppEntry(<<"w", "e", "b">>, TRUE, TRUE, "text", <<"#", " ", "d", "e", "m", "o", "\n">>, {"static"})},
      {AppEntry(<<"w", "e", "b">>, TRUE, TRUE, "unreadable", <<>>, {})} }

\* entries of apps/ the loop passes over
OtherAppEntries ==
    { NoEntry,
      {AppEntry(<<"_", "_", "p", "y", "c", "a", "c", "h", "e", "_", "_">>, TRUE, TRUE, "text", <<"i", "m", "p", "o", "r", "t", " ", "t", "y", "p", "e", "r", "\n">>, {}),
       AppEntry(<<"R", "E", "A", "D", "M", "E">>, FALSE, TRUE, "absent", <<>>, {})} }

CliScripts ==
    { NoEntry,
      {ScriptEntry(<<"c", "l", "i", ".", "p", "y">>, "text", <<"i", "m", "p", "o", "r", "t", " ", "t", "e", "x", "t", "u", "a", "l", "\n">>)},
      {ScriptEntry(<<"c", "l", "i", ".", "p", "y">>, "undecodable", <<>>)} }

UtilScripts ==
    { NoEntry,
      {ScriptEntry(<<"u", "t", "i", "l", ".", "p", "y">>, "text", <<"\"", "\"", "\"", "D", "e", "m", "o", "\"", "\"", "\"", "\n">>)} }

\* entries of scripts/ the loop passes over
OtherScriptEntries ==
    { NoEntry,
      {ScriptEntry(<<"_", "_", "i", "n", "i", "t", "_", "_", ".", "p", "y">>, "text", <<>>),
       ScriptEntry(<<"n", "o", "t", "e", "s", ".", "t", "x", "t">>, "text", <<"#", " ", "d", "e", "m", "o", "\n">>)} }

\* several candidates in both directories
ManyTrees ==
    { Tree(TRUE, c \cup w \cup o, TRUE, s \cup u \cup p) :
        c \in CliDirs, w \in WebDirs, o \in OtherAppEntries,
        s \in CliScripts, u \in UtilScripts, p \in OtherScriptEntries }

\* a project without apps/, or without scripts/
BareTrees ==
    { Tree(a, IF a THEN c ELSE {}, s, IF s THEN u ELSE {}) :
        a \in BOOLEAN, s \in BOOLEAN, c \in CliDirs, u \in UtilScripts }

Trees == RichTrees \cup ManyTrees \cup BareTrees

\* what one finished discover_apps call gave: the sorted list, and the list
\* in the order the candidates were found
Outcome(raised, result, order) ==
    [raised |-> raised, apps |-> result, found |-> order]

\* Discovery before anything has happened: the state the other
\* specifications keep it in
ScanIdle ==
    /\ tree = Tree(FALSE, {}, FALSE, {})
    /\ scan_pc = "idle"
    /\ pending_apps = {}
    /\ pending_scripts = {}
    /\ found = <<>>
    /\ outcomes = <<>>

\* The launcher before anything has happened: the state SpecConfig keeps it in
ShellIdle ==
    /\ procs = <<>>
    /\ running_processes = EmptyMap
    /\ screens = <<>>
    /\ apps = <<>>
    /\ app_list_widget = FALSE
    /\ scans = <<>>
    /\ on_disk = Delivery(FALSE, <<>>)
    /\ newest = Delivery(FALSE, <<>>)
    /\ blocked = FALSE
    /\ crashed = FALSE
    /\ last = Did("none", "")

\* The store before anything has happened: the state Spec keeps it in
\* What to_dict returned last.  made: it was called on this store; doc: the
\* returned mapping as it is now; shared: the top-level keys under which the
\* returned mapping and _config hold one and the same object.
NoExport == [made |-> FALSE, doc |-> EmptyDict, shared |-> {}]

\* to_dict: self._config.copy(), a new outer mapping (or list) that holds the
\* very objects _config holds; AttributeError on a document without copy().
to_dict(doc) ==
    IF doc.kind \in {"dict", "list"}
    THEN [export |-> [made |-> TRUE, doc |-> doc, shared |-> DOMAIN doc.map],
          raised |-> ""]
    ELSE [export |-> NoExport, raised |-> "AttributeError"]

\* the top-level key under which an assignment or deletion along keys binds
\* another object in the mapping m or unbinds one; none when it changes the
\* object bound there in place
Rebound(m, keys) ==
    IF Len(keys) = 1 \/ keys[1] \notin DOMAIN m \/ ~IsDict(m[keys[1]])
    THEN {keys[1]}
    ELSE {}

\* the document own when the objects under the keys of shared are those that
\* the document other holds
Through(own, other, shared) ==
    IF shared = {} THEN own
    ELSE DictV([k \in DOMAIN own.map |->
                   IF k \in shared THEN other.map[k] ELSE own.map[k]])

\* the returned mapping after the store's document became doc by a call that
\* left the objects under the keys of shared in place
Exported(doc, shared) ==
    [made |-> exported.made,
     doc |-> Through(exported.doc, doc, shared),
     shared |-> shared]

ConfigIdle ==
    /\ config = EmptyDict
    /\ config_file = FileOf("missing", JNull)
    /\ constructed = FALSE
    /\ cfgLast = Call("none", <<>>, NoneV, NoneV, "")
    /\ cfgOps = 0
    /\ exported = NoExport

(***************************************************************************)
(* The ConfigManager calls.                                                *)
(***************************************************************************)
CfgInit ==
    /\ config = EmptyDict
    /\ config_file \in InitialFiles
    /\ constructed = FALSE
    /\ cfgLast = Call("none", <<>>, NoneV, NoneV, "")
    /\ cfgOps = 0
    /\ exported = NoExport
    /\ ShellIdle
    /\ ScanIdle

\* ConfigManager(config_file): _config = {} and then load()
Construct ==
    /\ cfgOps < MaxCfgOps
    /\ LET r == ConfigLoad(EmptyDict, config_file)
       IN  /\ config' = r.doc
           /\ constructed' = (r.raised = "")
           /\ cfgLast' = Call("construct", <<>>, NoneV, NoneV, r.raised)
    /\ cfgOps' = cfgOps + 1
    /\ exported' = NoExport
    /\ UNCHANGED <<config_file, shellVars, scanVars>>

Load ==
    /\ constructed
    /\ cfgOps < MaxCfgOps
    /\ LET r == ConfigLoad(config, config_file)
       IN  /\ config' = r.doc
           /\ cfgLast' = Call("load", <<>>, NoneV, NoneV, r.raised)
           /\ exported' = IF config_file.kind = "missing" \/ r.raised # ""
                           THEN exported
                           ELSE Exported(r.doc, {})
    /\ cfgOps' = cfgOps + 1
    /\ UNCHANGED <<config_file, constructed, shellVars, scanVars>>

\* a save that writes only over a file that is already there
SaveKeepsMissing ==
    /\ constructed
    /\ cfgOps < MaxCfgOps
    /\ config_file' = IF config_file.kind = "missing" THEN config_file
                                                      ELSE save_json_config(config)
    /\ cfgLast' = Call("save", <<>>, NoneV, NoneV, "")
    /\ cfgOps' = cfgOps + 1
    /\ UNCHANGED <<config, constructed, exported, shellVars, scanVars>>

Save ==
    /\ constructed
    /\ cfgOps < MaxCfgOps
    /\ config_file' = save_json_config(config)
    /\ cfgLast' = Call("save", <<>>, NoneV, NoneV, "")
    /\ cfgOps' = cfgOps + 1
    /\ UNCHANGED <<config, constructed, exported, shellVars, scanVars>>

Get(key, default) ==
    /\ constructed
    /\ cfgOps < MaxCfgOps
    /\ cfgLast' = Call("get", key, default, ConfigGet(config, key, default), "")
    /\ cfgOps' = cfgOps + 1
    /\ UNCHANGED <<config, config_file, constructed, exported, shellVars, scanVars>>

Set(key, value) ==
    /\ constructed
    /\ cfgOps < MaxCfgOps
    /\ LET r == ConfigSet(config, key, value)
       IN  /\ config' = r.doc
           /\ cfgLast' = Call("set", key, value, NoneV, r.raised)
           /\ exported' = IF r.raised # "" THEN exported
                           ELSE Exported(r.doc, exported.shared
                                            \ Rebound(config.map, Split(key)))
    /\ cfgOps' = cfgOps + 1
    /\ UNCHANGED <<config_file, constructed, shellVars, scanVars>>

Delete(key) ==
    /\ constructed
    /\ cfgOps < MaxCfgOps
    /\ LET r == ConfigDelete(config, key)
       IN  /\ config' = r.doc
           /\ cfgLast' = Call("delete", key, NoneV, NoneV, r.raised)
           /\ exported' = IF r.raised # "" THEN exported
                           ELSE Exported(r.doc, exported.shared
                                            \ Rebound(config.map, Split(key)))
    /\ cfgOps' = cfgOps + 1
    /\ UNCHANGED <<config_file, constructed, shellVars, scanVars>>

CfgNext ==
    \/ Construct
    \/ Load
    \/ Save
    \/ \E key \in DottedKeys, default \in Defaults : Get(key, default)
    \/ \E key \in DottedKeys, value \in SetValues : Set(key, value)
    \/ \E key \in DottedKeys : Delete(key)

SpecConfig == CfgInit /\ [][CfgNext]_vars

\* ConfigManager.to_dict
ToDict ==
    /\ constructed
    /\ cfgOps < MaxCfgOps
    /\ LET r == to_dict(config)
       IN  /\ exported' = IF r.raised = "" THEN r.export ELSE exported
           /\ cfgLast' = Call("to_dict", <<>>, NoneV, NoneV, r.raised)
    /\ cfgOps' = cfgOps + 1
    /\ UNCHANGED <<config, config_file, constructed, shellVars, scanVars>>

\* the keys at which the holder of the returned mapping changes it:
\* d["a"] and d["a"]["b"]
HolderKeys == { <<"a">>, <<"a", ".", "b">> }

\* The holder of the returned mapping assigns in it: d[k] = value or
\* d[k][j] = value, the latter where d[k] is a mapping.
ExportedSet(key, value) ==
    /\ exported.made
    /\ IsDict(exported.doc)
    /\ cfgOps < MaxCfgOps
    /\ LET keys == Split(key)
           m == exported.doc.map
           doc == DictV(SetWalk(m, keys, value))
           shared == exported.shared \ Rebound(m, keys)
       IN  /\ Len(keys) > 1 => (keys[1] \in DOMAIN m /\ IsDict(m[keys[1]]))
           /\ exported' = [made |-> TRUE, doc |-> doc, shared |-> shared]
           /\ config' = Through(config, doc, shared)
    /\ cfgLast' = Call("returned set", key, value, NoneV, "")
    /\ cfgOps' = cfgOps + 1
    /\ UNCHANGED <<config_file, constructed, shellVars, scanVars>>

\* The holder of the returned mapping deletes in it: del d[k] or
\* del d[k][j], where that key is there.
ExportedDelete(key) ==
    /\ exported.made
    /\ IsDict(exported.doc)
    /\ cfgOps < MaxCfgOps
    /\ LET keys == Split(key)
           m == exported.doc.map
           doc == DictV(DeleteWalk(m, keys))
           shared == exported.shared \ Rebound(m, keys)
       IN  /\ doc # exported.doc
           /\ exported' = [made |-> TRUE, doc |-> doc, shared |-> shared]
           /\ config' = Through(config, doc, shared)
    /\ cfgLast' = Call("returned delete", key, NoneV, NoneV, "")
    /\ cfgOps' = cfgOps + 1
    /\ UNCHANGED <<config_file, constructed, shellVars, scanVars>>

\* the store and a mapping it returned, each changed by its holder
ExportNext ==
    \/ Construct
    \/ \E key \in DottedKeys, value \in SetValues : Set(key, value)
    \/ \E key \in DottedKeys : Delete(key)
    \/ ToDict
    \/ \E key \in HolderKeys, value \in SetValues : ExportedSet(key, value)
    \/ \E key \in HolderKeys : ExportedDelete(key)

SpecExport == CfgInit /\ [][ExportNext]_vars

(***************************************************************************)
(* AppRunner.                                                              *)
(***************************************************************************)
\* run_app that registers the name before Popen has returned a process
run_app_registers_first(ps, running, info, spawns) ==
    IF spawns
    THEN [procs |-> Append(ps, Popen(info.name)),
          running |-> Put(running, info.name, Len(ps) + 1),
          process |-> Len(ps) + 1,
          raised |-> FALSE]
    ELSE [procs |-> ps, running |-> Put(running, info.name, 0),
          process |-> 0, raised |-> TRUE]

\* run_app: Popen either spawns the child, which is then registered under the
\* descriptor's name, or raises, which run_app re-raises as RuntimeError.
run_app(ps, running, info, spawns) ==
    IF spawns
    THEN [procs |-> Append(ps, Popen(info.name)),
          running |-> Put(running, info.name, Len(ps) + 1),
          process |-> Len(ps) + 1,
          raised |-> FALSE]
    ELSE [procs |-> ps, running |-> running, process |-> 0, raised |-> TRUE]

\* stop_app whose timeout branch only drops the handle: no kill(), no wait()
stop_app_without_kill(ps, running, name, obeys) ==
    IF name \in DOMAIN running
    THEN LET p == running[name]
             timedOut == ps[p].status = "alive" /\ ~obeys
         IN  [procs |-> IF timedOut THEN ps
                        ELSE [ps EXCEPT ![p].status = "exited"],
              running |-> Remove(running, name),
              ret |-> TRUE, raised |-> FALSE, pid |-> p,
              timedOut |-> timedOut, killed |-> FALSE]
    ELSE [procs |-> ps, running |-> running,
          ret |-> FALSE, raised |-> FALSE, pid |-> 0,
          timedOut |-> FALSE, killed |-> FALSE]

\* stop_app that deletes the name whether or not it is registered and
\* answers True
stop_app_unchecked(ps, running, name, obeys) ==
    IF name \in DOMAIN running
    THEN [procs |-> [ps EXCEPT ![running[name]].status = "exited"],
          running |-> Remove(running, name),
          ret |-> TRUE, raised |-> FALSE, pid |-> running[name],
          timedOut |-> ps[running[name]].status = "alive" /\ ~obeys,
          killed |-> ps[running[name]].status = "alive" /\ ~obeys]
    ELSE [procs |-> ps, running |-> running,
          ret |-> TRUE, raised |-> FALSE, pid |-> 0,
          timedOut |-> FALSE, killed |-> FALSE]

\* stop_app: terminate(), wait(timeout=5); on TimeoutExpired kill(), wait();
\* then del running_processes[name] and True.  False without a handle.
\* obeys: a live child exits on the termination request within the timeout.
stop_app(ps, running, name, obeys) ==
    IF name \in DOMAIN running
    THEN LET p == running[name]
             timedOut == ps[p].status = "alive" /\ ~obeys
             afterWait == IF timedOut THEN ps
                          ELSE [ps EXCEPT ![p].status = "exited"]
             afterKill == IF timedOut
                          THEN [afterWait EXCEPT ![p].status = "exited"]
                          ELSE afterWait
         IN  [procs |-> afterKill,
              running |-> Remove(running, name),
              ret |-> TRUE, raised |-> FALSE, pid |-> p,
              timedOut |-> timedOut, killed |-> timedOut]
    ELSE [procs |-> ps, running |-> running,
          ret |-> FALSE, raised |-> FALSE, pid |-> 0,
          timedOut |-> FALSE, killed |-> FALSE]

\* is_running: a handle is registered and its poll() is None
is_running(ps, running, name) ==
    /\ name \in DOMAIN running
    /\ ps[running[name]].status = "alive"

(***************************************************************************)
(* RunningAppScreen.                                                       *)
(***************************************************************************)
\* on_mount that sets the timer before run_app has returned
on_mount_timer_first(screen, ps, running, spawns) ==
    LET r == run_app(ps, running, AppInfo(screen.name), spawns)
    IN  IF ~r.raised
        THEN [screen |-> [screen EXCEPT
                              !.process = r.process,
                              !.mounted = TRUE,
                              !.timer = TRUE,
                              !.log = IF AppInfo(screen.name).type = "web"
                                         /\ AppInfo(screen.name).port
                                      THEN <<"url">> ELSE <<>>],
              procs |-> r.procs, running |-> r.running,
              process |-> r.process, raised |-> FALSE, escaped |-> FALSE]
        ELSE [screen |-> [screen EXCEPT
                              !.mounted = TRUE,
                              !.timer = TRUE,
                              !.log = <<"failed to start">>],
              procs |-> r.procs, running |-> r.running,
              process |-> 0, raised |-> TRUE, escaped |-> FALSE]

\* on_mount: run_app, then the first timer and, for a web app with a port,
\* the URL line; any exception of the try block becomes a log line.
on_mount(screen, ps, running, spawns) ==
    LET r == run_app(ps, running, AppInfo(screen.name), spawns)
    IN  IF ~r.raised
        THEN [screen |-> [screen EXCEPT
                              !.process = r.process,
                              !.mounted = TRUE,
                              !.timer = TRUE,
                              !.log = IF AppInfo(screen.name).type = "web"
                                         /\ AppInfo(screen.name).port
                                      THEN <<"url">> ELSE <<>>],
              procs |-> r.procs, running |-> r.running,
              process |-> r.process, raised |-> FALSE, escaped |-> FALSE]
        ELSE [screen |-> [screen EXCEPT
                              !.mounted = TRUE,
                              !.log = <<"failed to start">>],
              procs |-> r.procs, running |-> r.running,
              process |-> 0, raised |-> TRUE, escaped |-> FALSE]

\* readline() returns at once when the pipe holds a line or has reached its
\* end (the child has exited); otherwise it waits for the child.
ReadlineReady(screen, ps) ==
    \/ ps[screen.process].out > 0
    \/ ps[screen.process].status = "exited"

\* _read_output that sets the next timer whether or not the child has exited
read_output_reschedules(screen, ps, running) ==
    LET p == screen.process
        gotLine == ps[p].out > 0
        exited == ps[p].status = "exited"
        log1 == IF gotLine THEN Append(screen.log, "line") ELSE screen.log
        log2 == IF exited THEN Append(log1, "exit code") ELSE log1
    IN  [screen |-> [screen EXCEPT !.log = log2, !.timer = TRUE],
         procs |-> IF gotLine THEN [ps EXCEPT ![p].out = @ - 1] ELSE ps,
         running |-> running,
         exited |-> exited]

\* _read_output from the return of readline() on: write the line read, if
\* any; when poll() is not None write the exit code and return, otherwise
\* set the next timer.
read_output(screen, ps, running) ==
    LET p == screen.process
        gotLine == ps[p].out > 0
        exited == ps[p].status = "exited"
        log1 == IF gotLine THEN Append(screen.log, "line") ELSE screen.log
        log2 == IF exited THEN Append(log1, "exit code") ELSE log1
    IN  [screen |-> [screen EXCEPT !.log = log2, !.timer = ~exited],
         procs |-> IF gotLine THEN [ps EXCEPT ![p].out = @ - 1] ELSE ps,
         running |-> running,
         exited |-> exited]

\* action_stop_app: stop_app and a line for either result
action_stop_app(screen, ps, running, obeys) ==
    LET r == stop_app(ps, running, screen.name, obeys)
    IN  [screen |-> [screen EXCEPT
                         !.log = Append(@, IF r.ret THEN "stopped"
                                           ELSE "failed to stop")],
         procs |-> r.procs, running |-> r.running, stop |-> r]

(***************************************************************************)
(* The actions of the launcher.  Handlers run one at a time on the UI      *)
(* task: none starts while one sits in readline() or after a crash.        *)
(***************************************************************************)
UiFree == ~blocked /\ ~crashed

Top == screens[Len(screens)]

InRunningView == screens # <<>> /\ Top.mounted

SetTop(screen) == [screens EXCEPT ![Len(screens)] = screen]

\* the lines that stop requests have written to a log
StopLines(log) ==
    Cardinality({i \in 1..Len(log) : log[i] \in {"stopped", "failed to stop"}})

ShellInit ==
    /\ ConfigIdle
    /\ ScanIdle
    /\ procs = <<>>
    /\ running_processes = EmptyMap
    /\ screens = <<>>
    /\ apps = <<>>
    /\ app_list_widget = FALSE
    /\ on_disk \in { Delivery(FALSE, list) : list \in ScanResults }
    /\ scans = <<on_disk>>
    /\ newest = on_disk
    /\ blocked = FALSE
    /\ crashed = FALSE
    /\ last = Did("none", "")

\* MonolithLauncher.discover_apps from the return of the executor on, for the
\* i-th task in flight: self.apps = apps and build_app_list mounts the list;
\* after an exception self.apps = [] and an error label is mounted.
DiscoverDone(i) ==
    /\ UiFree
    /\ i \in 1..Len(scans)
    /\ IF scans[i].raised
       THEN /\ apps' = <<>>
            /\ UNCHANGED app_list_widget
       ELSE /\ apps' = scans[i].apps
            /\ app_list_widget' = TRUE
    /\ scans' = SubSeq(scans, 1, i - 1) \o SubSeq(scans, i + 1, Len(scans))
    /\ last' = Did("discovered", "")
    /\ UNCHANGED <<procs, running_processes, screens, blocked, crashed,
                   cfgVars, scanVars, on_disk, newest>>

\* MonolithLauncher.action_refresh: the list is removed and a new
\* discover_apps task is created; its worker scans the tree as it is now
Refresh ==
    /\ UiFree
    /\ screens = <<>>
    /\ Len(scans) < MaxScans
    /\ app_list_widget' = FALSE
    /\ scans' = Append(scans, on_disk)
    /\ newest' = on_disk
    /\ last' = Did("refresh", "")
    /\ UNCHANGED <<procs, running_processes, screens, apps, blocked, crashed,
                   cfgVars, scanVars, on_disk>>

\* files of the project are added or removed while the launcher runs
TreeChanges(d) ==
    /\ d # on_disk
    /\ on_disk' = d
    /\ UNCHANGED <<procs, running_processes, screens, apps, app_list_widget,
                   scans, newest, blocked, crashed, last, cfgVars, scanVars>>

\* MonolithLauncher.action_run_selected; highlighted 0 is None
RunSelected(highlighted) ==
    /\ UiFree
    /\ screens = <<>>
    /\ Len(procs) < MaxProcs
    /\ IF apps = <<>> \/ ~app_list_widget \/ highlighted = 0
       THEN /\ last' = Did("nothing to run", "")
            /\ UNCHANGED screens
       ELSE /\ screens' = Append(screens, RunningAppScreen(apps[highlighted]))
            /\ last' = Did("run", apps[highlighted])
    /\ UNCHANGED <<procs, running_processes, apps, app_list_widget, scans,
                   blocked, crashed, cfgVars, scanVars, on_disk, newest>>

\* RunningAppScreen.on_mount
OnMount(spawns) ==
    /\ UiFree
    /\ screens # <<>>
    /\ ~Top.mounted
    /\ LET r == on_mount(Top, procs, running_processes, spawns)
       IN  /\ screens' = SetTop(r.screen)
           /\ procs' = r.procs
           /\ running_processes' = r.running
           /\ crashed' = r.escaped
           /\ last' = Event("start", Top.name, spawns, r.process, ~r.raised,
                            r.raised, FALSE, FALSE)
    /\ UNCHANGED <<apps, app_list_widget, scans, blocked, cfgVars, scanVars, on_disk, newest>>

\* RunningAppScreen._read_output when readline() has something to return
ReadOutput ==
    /\ UiFree
    /\ InRunningView
    /\ Top.timer
    /\ ReadlineReady(Top, procs)
    /\ LET r == read_output(Top, procs, running_processes)
       IN  /\ screens' = SetTop(r.screen)
           /\ procs' = r.procs
           /\ running_processes' = r.running
           /\ last' = Event("poll", Top.name, FALSE, Top.process, r.exited,
                            FALSE, FALSE, FALSE)
    /\ UNCHANGED <<apps, app_list_widget, scans, blocked, crashed, cfgVars, scanVars, on_disk, newest>>

\* _read_output reaching readline() with a live, silent child: the UI task
\* waits in the read.
ReadOutputWaits ==
    /\ UiFree
    /\ InRunningView
    /\ Top.timer
    /\ ~ReadlineReady(Top, procs)
    /\ blocked' = TRUE
    /\ screens' = SetTop([Top EXCEPT !.timer = FALSE])
    /\ last' = Did("poll waits", Top.name)
    /\ UNCHANGED <<procs, running_processes, apps, app_list_widget, scans,
                   crashed, cfgVars, scanVars, on_disk, newest>>

\* ... and readline() returning at last: the rest of _read_output
ReadOutputResumes ==
    /\ blocked
    /\ ReadlineReady(Top, procs)
    /\ LET r == read_output(Top, procs, running_processes)
       IN  /\ screens' = SetTop(r.screen)
           /\ procs' = r.procs
           /\ running_processes' = r.running
           /\ last' = Event("poll", Top.name, FALSE, Top.process, r.exited,
                            FALSE, FALSE, FALSE)
    /\ blocked' = FALSE
    /\ UNCHANGED <<apps, app_list_widget, scans, crashed, cfgVars, scanVars, on_disk, newest>>

\* a back that stops the application of the screen it leaves
BackStops ==
    /\ UiFree
    /\ InRunningView
    /\ LET r == action_stop_app(Top, procs, running_processes, TRUE)
       IN  /\ procs' = r.procs
           /\ running_processes' = r.running
    /\ screens' = SubSeq(screens, 1, Len(screens) - 1)
    /\ last' = Did("back", Top.name)
    /\ UNCHANGED <<apps, app_list_widget, scans, blocked, crashed, cfgVars,
                   scanVars, on_disk, newest>>

\* RunningAppScreen.action_back: pop_screen; the popped screen's timer goes
\* with it, the child and its handle stay.
Back ==
    /\ UiFree
    /\ InRunningView
    /\ screens' = SubSeq(screens, 1, Len(screens) - 1)
    /\ last' = Did("back", Top.name)
    /\ UNCHANGED <<procs, running_processes, apps, app_list_widget, scans,
                   blocked, crashed, cfgVars, scanVars, on_disk, newest>>

\* RunningAppScreen.action_stop_app
StopApp(obeys) ==
    /\ UiFree
    /\ InRunningView
    /\ StopLines(Top.log) < MaxStops
    /\ LET r == action_stop_app(Top, procs, running_processes, obeys)
       IN  /\ screens' = SetTop(r.screen)
           /\ procs' = r.procs
           /\ running_processes' = r.running
           /\ crashed' = r.stop.raised
           /\ last' = Event("stop", Top.name, obeys, r.stop.pid, r.stop.ret,
                            r.stop.raised, r.stop.timedOut, r.stop.killed)
    /\ UNCHANGED <<apps, app_list_widget, scans, blocked, cfgVars, scanVars, on_disk, newest>>

\* A live child writes a line to its pipe.  Only the pipe of a child that a
\* pushed screen holds is ever read, so only these writes are followed.
ChildWrites(p) ==
    /\ procs[p].status = "alive"
    /\ \E i \in 1..Len(screens) : screens[i].process = p
    /\ procs[p].written < MaxLines
    /\ procs' = [procs EXCEPT ![p].out = @ + 1, ![p].written = @ + 1]
    /\ UNCHANGED <<running_processes, screens, apps, app_list_widget, scans,
                   blocked, crashed, last, cfgVars, scanVars, on_disk, newest>>

\* A live child exits by itself.
ChildExits(p) ==
    /\ procs[p].status = "alive"
    /\ procs' = [procs EXCEPT ![p].status = "exited"]
    /\ UNCHANGED <<running_processes, screens, apps, app_list_widget, scans,
                   blocked, crashed, last, cfgVars, scanVars, on_disk, newest>>

Next ==
    \/ \E i \in 1..Len(scans) : DiscoverDone(i)
    \/ Refresh
    \/ \E highlighted \in 0..Len(apps) : RunSelected(highlighted)
    \/ \E spawns \in BOOLEAN : OnMount(spawns)
    \/ ReadOutput
    \/ ReadOutputWaits
    \/ ReadOutputResumes
    \/ Back
    \/ \E obeys \in BOOLEAN : StopApp(obeys)
    \/ \E p \in 1..Len(procs) : ChildWrites(p)
    \/ \E p \in 1..Len(procs) : ChildExits(p)

Spec == ShellInit /\ [][Next]_vars

\* the list view alone, on a project tree that changes: refreshes and the
\* discover_apps tasks they create
RefreshNext ==
    \/ \E i \in 1..Len(scans) : DiscoverDone(i)
    \/ Refresh
    \/ \E d \in Deliveries : TreeChanges(d)

SpecRefresh == ShellInit /\ [][RefreshNext]_vars

\* A live child writes a line to its pipe while its running view is on top.
ChildWritesOn(p) ==
    /\ procs[p].status = "alive"
    /\ InRunningView
    /\ Top.process = p
    /\ procs[p].written < MaxOutput
    /\ procs' = [procs EXCEPT ![p].out = @ + 1, ![p].written = @ + 1]
    /\ UNCHANGED <<running_processes, screens, apps, app_list_widget, scans,
                   blocked, crashed, last, cfgVars, scanVars, on_disk, newest>>

\* one running view that stays open: the application is selected and
\* started, writes its lines and exits by itself, and the view polls
ViewNext ==
    \/ \E i \in 1..Len(scans) : DiscoverDone(i)
    \/ \E highlighted \in 0..Len(apps) : RunSelected(highlighted)
    \/ \E spawns \in BOOLEAN : OnMount(spawns)
    \/ ReadOutput
    \/ ReadOutputWaits
    \/ ReadOutputResumes
    \/ \E p \in 1..Len(procs) : ChildWritesOn(p)
    \/ \E p \in 1..Len(procs) : ChildExits(p)

SpecView == ShellInit /\ [][ViewNext]_vars

(***************************************************************************)
(* AppDiscovery.discover_apps, one candidate at a time.                    *)
(***************************************************************************)
ScanInit ==
    /\ tree \in Trees
    /\ scan_pc = "idle"
    /\ pending_apps = {}
    /\ pending_scripts = {}
    /\ found = <<>>
    /\ outcomes = <<>>
    /\ ShellIdle
    /\ ConfigIdle

\* discover_apps() is called: apps = []
ScanStart ==
    /\ scan_pc = "idle"
    /\ Len(outcomes) < MaxScanRuns
    /\ scan_pc' = "scanning"
    /\ found' = <<>>
    /\ pending_apps' = IF tree.apps.exists THEN tree.apps.entries ELSE {}
    /\ pending_scripts' = IF tree.scripts.exists
                          THEN glob_py(tree.scripts.entries) ELSE {}
    /\ UNCHANGED <<tree, outcomes, cfgVars, shellVars>>

\* one turn of the loop over apps_dir.iterdir(), in whatever order the
\* directory yields its entries
VisitApp(e) ==
    /\ scan_pc = "scanning"
    /\ e \in pending_apps
    /\ LET r == IF e.is_dir /\ e.name # <<"_", "_", "p", "y", "c", "a", "c", "h", "e", "_", "_">>
                THEN analyze_app(e) ELSE Analysed(FALSE, <<>>)
       IN  IF r.raised
           THEN /\ scan_pc' = "idle"
                /\ outcomes' = Append(outcomes, Outcome(TRUE, <<>>, found))
                /\ pending_apps' = {}
                /\ pending_scripts' = {}
                /\ found' = <<>>
           ELSE /\ found' = found \o r.info
                /\ pending_apps' = pending_apps \ {e}
                /\ UNCHANGED <<scan_pc, outcomes, pending_scripts>>
    /\ UNCHANGED <<tree, cfgVars, shellVars>>

\* one turn of the loop over scripts_dir.glob("*.py"), after the loop over
\* the applications
VisitScript(e) ==
    /\ scan_pc = "scanning"
    /\ pending_apps = {}
    /\ e \in pending_scripts
    /\ LET r == IF e.name # <<"_", "_", "i", "n", "i", "t", "_", "_", ".", "p", "y">>
                THEN analyze_script(e) ELSE Analysed(FALSE, <<>>)
       IN  found' = found \o r.info
    /\ pending_scripts' = pending_scripts \ {e}
    /\ UNCHANGED <<tree, scan_pc, outcomes, pending_apps, cfgVars, shellVars>>

\* return sorted(apps, key=lambda x: (x.type, x.name))
ScanReturn ==
    /\ scan_pc = "scanning"
    /\ pending_apps = {}
    /\ pending_scripts = {}
    /\ outcomes' = Append(outcomes, Outcome(FALSE, sorted(found), found))
    /\ scan_pc' = "idle"
    /\ found' = <<>>
    /\ UNCHANGED <<tree, pending_apps, pending_scripts, cfgVars, shellVars>>

ScanNext ==
    \/ ScanStart
    \/ \E e \in pending_apps : VisitApp(e)
    \/ \E e \in pending_scripts : VisitScript(e)
    \/ ScanReturn

SpecDiscovery == ScanInit /\ [][ScanNext]_vars

(***************************************************************************)
(* Which handler a step of the launcher was.                               *)
(***************************************************************************)
\* a step of action_stop_app: the top screen's log gains a stop line
StopStep ==
    /\ screens # <<>>
    /\ Len(screens') = Len(screens)
    /\ Len(Top'.log) = Len(Top.log) + 1
    /\ Top'.log[Len(Top'.log)] \in {"stopped", "failed to stop"}

\* a step of on_mount: the top screen becomes mounted
MountStep ==
    /\ screens # <<>>
    /\ ~Top.mounted
    /\ Len(screens') = Len(screens)
    /\ Top'.mounted

Pids == 1..Len(procs)

Registered(name) == name \in DOMAIN running_processes

HasLine(log, line) == \E i \in 1..Len(log) : log[i] = line

(***************************************************************************)
(* C1: at most one live child process exists per descriptor name: two live *)
(* processes started under the same name never coexist.                    *)
(* Refuted: run_app spawns and overwrites the handle without looking at    *)
(* the one already registered.                                             *)
(***************************************************************************)
C1_OneLiveProcessPerName ==
    \A p \in Pids, q \in Pids :
        (p # q /\ procs[p].name = procs[q].name)
            => ~(procs[p].status = "alive" /\ procs[q].status = "alive")

(***************************************************************************)
(* C2: once the output poll has reported the exit of a screen's process,   *)
(* no handle for that process is registered under its name.                *)
(* Refuted: _read_output writes the exit line and returns; nothing is      *)
(* removed from running_processes.                                         *)
(***************************************************************************)
C2_ObservedExitRemovesHandle ==
    \A i \in 1..Len(screens) :
        (screens[i].process # 0 /\ HasLine(screens[i].log, "exit code"))
            => ~(/\ Registered(screens[i].name)
                 /\ running_processes[screens[i].name] = screens[i].process)

(***************************************************************************)
(* C3: a stop of a name with a registered handle returns true and raises   *)
(* nothing, also when the graceful phase timed out (then the process was   *)
(* killed); when it has returned the process has exited, the name is not   *)
(* registered and is_running(name) is false.                               *)
(***************************************************************************)
C3_StopTerminatesAndUnregisters ==
    [][ (StopStep /\ Registered(Top.name)) =>
            /\ procs'[running_processes[Top.name]].status = "exited"
            /\ ~Registered(Top.name)'
            /\ ~is_running(procs', running_processes', Top.name)
            /\ last'.ret /\ ~last'.raised /\ ~crashed'
            /\ last'.pid = running_processes[Top.name]
            /\ last'.killed = last'.timedOut
            /\ last'.timedOut
                 = (procs[running_processes[Top.name]].status = "alive"
                      /\ ~last'.input)
            /\ Top'.log[Len(Top'.log)] = "stopped" ]_vars

\* a stop that timed out and killed has returned
C3_Witness ==
    /\ last.op = "stop" /\ last.ret /\ last.timedOut /\ last.killed
    /\ procs[last.pid].status = "exited"
    /\ ~Registered(last.name)

(***************************************************************************)
(* C4: a start whose command cannot be spawned fails with a launch error,  *)
(* leaves the name-to-handle mapping and the processes as they were, and   *)
(* a name that was not running is not running afterwards.                  *)
(***************************************************************************)
C4_FailedStartRegistersNothing ==
    [][ (MountStep /\ last'.op = "start" /\ ~last'.input) =>
            /\ last'.raised
            /\ running_processes' = running_processes
            /\ procs' = procs
            /\ Top'.process = 0
            /\ (~is_running(procs, running_processes, Top.name)
                  => ~is_running(procs', running_processes', Top.name)) ]_vars

\* a start has failed for a name that has no handle
C4_Witness ==
    /\ last.op = "start" /\ ~last.input /\ last.raised
    /\ ~Registered(last.name)
    /\ ~is_running(procs, running_processes, last.name)

(***************************************************************************)
(* C5: a stop of a name with no registered handle returns false, raises    *)
(* nothing and leaves the mapping and every process as they were; so does  *)
(* a second stop right after a successful one.                             *)
(***************************************************************************)
C5_StopWithoutHandleIsFalse ==
    [][ (StopStep /\ ~Registered(Top.name)) =>
            /\ ~last'.ret /\ ~last'.raised /\ ~crashed'
            /\ running_processes' = running_processes
            /\ procs' = procs
            /\ Top'.log[Len(Top'.log)] = "failed to stop" ]_vars

\* the second of two stops on one screen, the first of which succeeded
C5_Witness ==
    /\ last.op = "stop" /\ ~last.ret
    /\ screens # <<>>
    /\ Len(Top.log) >= 2
    /\ Top.log[Len(Top.log) - 1] = "stopped"
    /\ Top.log[Len(Top.log)] = "failed to stop"

(***************************************************************************)
(* C6: when run_app raises in on_mount the failure becomes a log line, the *)
(* shell has not crashed, no poll is scheduled for that screen, and back   *)
(* and stop are still taken.                                               *)
(***************************************************************************)
C6_FailedStartIsLogged ==
    /\ (last.op = "start" /\ ~last.input) =>
            /\ ~crashed
            /\ screens # <<>>
            /\ Top.log = <<"failed to start">>
            /\ ~Top.timer
            /\ Top.process = 0
            /\ ENABLED Back
            /\ ENABLED StopApp(TRUE)
    /\ \A i \in 1..Len(screens) :
            (screens[i].mounted /\ screens[i].process = 0)
                => (~screens[i].timer /\ ~crashed
                      /\ screens[i].log[1] = "failed to start")

\* after a failed start the stop action has run on that screen
C6_Witness ==
    /\ screens # <<>>
    /\ Top.process = 0
    /\ Top.log = <<"failed to start", "failed to stop">>
    /\ last.op = "stop"
    /\ ~crashed

(***************************************************************************)
(* Paths of a document, stated without the walks of get, set and delete.   *)
(***************************************************************************)
\* the value n segments down the path, when every segment before is there
RECURSIVE At(_, _)
At(doc, segs) ==
    IF segs = <<>> THEN doc ELSE At(doc, ButLast(segs)).map[Last(segs)]

\* the first n segments of the path lead through mappings to a value
ResolvesTo(doc, segs, n) ==
    \A i \in 1..n :
        /\ IsDict(At(doc, SubSeq(segs, 1, i - 1)))
        /\ segs[i] \in DOMAIN At(doc, SubSeq(segs, 1, i - 1)).map

Resolves(doc, segs) == ResolvesTo(doc, segs, Len(segs))

\* the path passes through a value that is no mapping at segment n
NonMappingAt(doc, segs, n) ==
    /\ n \in 1..(Len(segs) - 1)
    /\ ResolvesTo(doc, segs, n)
    /\ ~IsDict(At(doc, SubSeq(segs, 1, n)))

\* the mapping that holds nothing but the path segs down to value
RECURSIVE OnlyPath(_, _)
OnlyPath(segs, value) ==
    IF segs = <<>> THEN value
    ELSE DictV(One(Head(segs), OnlyPath(Tail(segs), value)))

\* which call a step of the store was
CallStep(op) == cfgOps' = cfgOps + 1 /\ cfgLast'.op = op

(***************************************************************************)
(* C7: after load() the in-memory document is the parsed document of the   *)
(* file, or the empty mapping when the file is missing or corrupt,         *)
(* whatever was set or deleted before; nothing is raised.                  *)
(* Refuted: load() does nothing at all when the file does not exist, so    *)
(* what was set before stays.                                              *)
(***************************************************************************)
C7_LoadReplacesState ==
    cfgLast.op = "load" =>
        /\ cfgLast.raised = ""
        /\ config = IF config_file.kind = "json"
                    THEN JsonLoad(config_file.json)
                    ELSE EmptyDict

(***************************************************************************)
(* C8: in every state of the store, get(key) right after set(key, value)   *)
(* returns value, and get(key, default) right after delete(key) returns    *)
(* default.                                                                *)
(* Refuted: a file holding a JSON array or number makes _config a list or  *)
(* an int, on which set raises TypeError and stores nothing.               *)
(***************************************************************************)
C8_GetAfterSetAndDelete ==
    [][ /\ (CallStep("get") /\ cfgLast.op = "set"
              /\ cfgLast'.key = cfgLast.key)
            => cfgLast'.res = cfgLast.val
        /\ (CallStep("get") /\ cfgLast.op = "delete"
              /\ cfgLast'.key = cfgLast.key)
            => cfgLast'.res = cfgLast'.val ]_vars

(***************************************************************************)
(* C9: set(key, value) on a path that passes through a segment holding a   *)
(* value that is no mapping raises nothing, replaces that segment by a     *)
(* mapping that holds only the rest of the path, and value is then read    *)
(* at key.                                                                 *)
(***************************************************************************)
C9_SetOverwritesNonMapping ==
    [][ \A n \in 1..Len(Split(cfgLast'.key)) :
          (CallStep("set") /\ NonMappingAt(config, Split(cfgLast'.key), n)) =>
            LET segs == Split(cfgLast'.key)
            IN  /\ cfgLast'.raised = ""
                /\ ResolvesTo(config', segs, n)
                /\ At(config', SubSeq(segs, 1, n))
                     = OnlyPath(SubSeq(segs, n + 1, Len(segs)), cfgLast'.val)
                /\ ConfigGet(config', cfgLast'.key, NoneV) = cfgLast'.val
                /\ \A k \in DottedKeys :
                     Split(k)[1] # segs[1]
                        => ConfigGet(config', k, NoneV)
                             = ConfigGet(config, k, NoneV) ]_vars

\* the file held {"a": 1}, and set("a.b", 1) was the first call on the store
C9_Witness ==
    /\ cfgLast.op = "set" /\ cfgLast.raised = ""
    /\ cfgLast.key = <<"a", ".", "b">> /\ cfgLast.val = IntV(1)
    /\ config_file = FileOf("json", JObject(One(SegA, JNumber(1))))
    /\ cfgOps = 2
    /\ config = DictV(One(SegA, DictV(One(SegB, IntV(1)))))

(***************************************************************************)
(* C10: get(key, default) raises nothing and changes nothing; when the     *)
(* path is missing at a segment or passes through a value that is no       *)
(* mapping it returns the default, otherwise the value at the path.        *)
(***************************************************************************)
C10_GetNeverFails ==
    [][ CallStep("get") =>
            /\ cfgLast'.raised = ""
            /\ config' = config
            /\ config_file' = config_file
            /\ IF Resolves(config, Split(cfgLast'.key))
               THEN cfgLast'.res = At(config, Split(cfgLast'.key))
               ELSE cfgLast'.res = cfgLast'.val ]_vars

\* get("a.b", 7) answered 7 on a document whose "a" is no mapping
C10_Witness ==
    /\ cfgLast.op = "get"
    /\ cfgLast.key = <<"a", ".", "b">>
    /\ cfgLast.val = IntV(7) /\ cfgLast.res = IntV(7)
    /\ IsDict(config)
    /\ SegA \in DOMAIN config.map
    /\ ~IsDict(config.map[SegA])

(***************************************************************************)
(* C11, C12: persistence round trip and delete on unresolved paths.        *)
(***************************************************************************)
\* a value JSON writes and reads back as itself: no tuple anywhere in it
RECURSIVE JsonNative(_)
JsonNative(v) ==
    /\ v.kind # "tuple"
    /\ IsDict(v) => \A k \in DOMAIN v.map : JsonNative(v.map[k])

\* the store built by the step reads like the store that was saved
SameStore ==
    /\ cfgLast'.raised = ""
    /\ config' = config
    /\ \A k \in DottedKeys :
          ConfigGet(config', k, NoneV) = ConfigGet(config, k, NoneV)

\* C11 as stated: a store constructed directly after save() on the same path
\* has the mapping of the saved store, and get(key) agrees for every key,
\* whatever set and delete had put into the saved mapping.
C11_SaveThenConstructRoundTrips ==
    [][ (CallStep("construct") /\ cfgLast.op = "save") => SameStore ]_vars

\* C11 amended: a store constructed directly after save() on the same path
\* has the mapping of the saved store, and get(key) agrees for every key,
\* when the saved mapping holds only values JSON represents as themselves.
C11_JsonValuesRoundTrip ==
    [][ (CallStep("construct") /\ cfgLast.op = "save" /\ JsonNative(config))
           => SameStore ]_vars

\* a store read back from the file a save wrote after set("a.b", 1)
C11_Witness ==
    /\ cfgLast.op = "construct"
    /\ cfgLast.raised = ""
    /\ config = DictV(One(SegA, DictV(One(SegB, IntV(1)))))
    /\ config_file = save_json_config(config)

\* C12: delete(key) on a path that does not fully resolve raises nothing and
\* leaves the mapping as it was.
C12_DeleteUnresolvedIsNoOp ==
    [][ (CallStep("delete") /\ ~Resolves(config, Split(cfgLast'.key)))
           => (cfgLast'.raised = "" /\ config' = config) ]_vars

(***************************************************************************)
(* C13 to C18: the result of a discovery scan.                             *)
(***************************************************************************)
\* the discover_apps calls that returned a list
Returned == { i \in 1..Len(outcomes) : ~outcomes[i].raised }

\* the descriptors of the i-th call
InfosOf(i) == { outcomes[i].apps[a] : a \in 1..Len(outcomes[i].apps) }

\* the descriptor was built from the directory apps/<name>
FromApps(info) == Len(info.path) = 2 /\ info.path[1] = AppsDir

\* the entry of apps/ a descriptor was built from
EntryOf(info) == CHOOSE e \in tree.apps.entries : e.name = info.name

\* what the scan should list: an application directory whose main.py can be
\* read, a script that can be read
ValidApps ==
    { e \in tree.apps.entries :
        e.is_dir /\ e.name # <<"_", "_", "p", "y", "c", "a", "c", "h", "e", "_", "_">>
                 /\ e.searchable /\ e.main = "text" }
ValidScripts ==
    { e \in glob_py(tree.scripts.entries) :
        e.name # <<"_", "_", "i", "n", "i", "t", "_", "_", ".", "p", "y">>
          /\ e.main = "text" }

\* C13: within the list one scan returns no two descriptors have the same
\* name, whichever directory they come from.
C13_NamesUnique ==
    \A i \in Returned :
      \A a, b \in 1..Len(outcomes[i].apps) :
        a # b => outcomes[i].apps[a].name # outcomes[i].apps[b].name

\* C14: the port of every descriptor a scan returns is absent or a positive
\* integer.
C14_PortIsPositive ==
    \A i \in Returned :
      \A info \in InfosOf(i) : info.port # NoneV => info.port.val > 0

C16_SortedAndDeterministic ==
    \A i \in Returned :
      /\ \A a, b \in 1..Len(outcomes[i].apps) :
            a < b => ~KeyLess(outcomes[i].apps[b], outcomes[i].apps[a])
      /\ \A j \in Returned : outcomes[j].apps = outcomes[i].apps

\* two scans found the candidates in different orders, one of them not in
\* the order of the list
C16_Witness ==
    \E i, j \in Returned :
      /\ outcomes[i].found # outcomes[j].found
      /\ outcomes[i].found # outcomes[i].apps
      /\ Len(outcomes[i].apps) > 2

\* C17: no discover_apps call is left by an exception, and the list it
\* returns has a descriptor for every valid candidate, whatever fails in the
\* analysis of the others.
C17_FailureSkipsOneCandidate ==
    \A i \in 1..Len(outcomes) :
      /\ ~outcomes[i].raised
      /\ \A e \in ValidApps :
            \E info \in InfosOf(i) : info.path = <<AppsDir, e.name>>
      /\ \A e \in ValidScripts :
            \E info \in InfosOf(i) : info.main_file = <<ScriptsDir, e.name>>

\* C18: the list a scan returns has no descriptor for a directory of apps/
\* without main.py.
C18_NoEntryFileNoDescriptor ==
    \A i \in Returned :
      \A e \in tree.apps.entries :
        (e.is_dir /\ e.main = "absent") =>
          \A info \in InfosOf(i) : info.path # <<AppsDir, e.name>>

\* a scan returned on a tree whose apps/cli has templates but no main.py,
\* and listed the script of the same name
C18_Witness ==
    \E i \in Returned :
      \E e \in tree.apps.entries :
        /\ e.is_dir /\ e.searchable /\ e.main = "absent" /\ e.subdirs # {}
        /\ \E info \in InfosOf(i) : info.name = e.name

(***************************************************************************)
(* C19: back in the running view.                                          *)
(***************************************************************************)
\* a step of action_back: a screen is popped
BackStep == Len(screens') = Len(screens) - 1

Held(d) == IF d.raised THEN <<>> ELSE d.apps

\* C20: once no discover_apps task is in flight any more, the list the
\* launcher holds is the one delivered by the task that was started last, in
\* whatever order the tasks completed.
C20_LaterScanWins == (scans = <<>>) => apps = Held(newest)

(***************************************************************************)
(* C21: a poll tick and the read it makes.                                 *)
(***************************************************************************)
\* C21: the line read of a poll tick never waits on the child: no tick is
\* ever left waiting inside its read, so the shell always stays free to
\* handle its other actions, also while the child is alive and silent.
C21_TickNeverWaits == ~blocked

(***************************************************************************)
(* C22: the polling of the running view.                                   *)
(***************************************************************************)
\* a step in which a poll tick writes to the log of the running view
PollStep == last'.op = "poll" /\ screens' # screens

\* how often a line occurs in a log
Occurrences(log, line) == Cardinality({i \in 1..Len(log) : log[i] = line})

C24_NoLineDropped ==
    (InRunningView /\ HasLine(Top.log, "exit code"))
        => procs[Top.process].out = 0

(***************************************************************************)
(* C25: the type of the in-memory document.                                *)
(***************************************************************************)
\* C25: whatever JSON text the backing file holds, a top-level array or
\* scalar included, the document of a constructed store is a mapping after
\* any sequence of construct, load, set, delete and save, and no get, set or
\* delete fails on the type of the document.
C25_DocumentIsMapping ==
    constructed => /\ IsDict(config)
                   /\ cfgLast.op \in {"get", "set", "delete"}
                         => cfgLast.raised # "TypeError"

(***************************************************************************)
(* C26: the mapping returned by to_dict and the store.                     *)
(***************************************************************************)
\* C26: the mapping that to_dict returned is a snapshot independent of the
\* store: a later set or delete on the store, at any nesting depth, leaves the
\* returned mapping as it was, and a change made to the returned mapping, at
\* any nesting depth, leaves what get returns for every key as it was.
C26_SnapshotIsIndependent ==
    [][ exported.made =>
          /\ (CallStep("set") \/ CallStep("delete"))
                => exported'.doc = exported.doc
          /\ (CallStep("returned set") \/ CallStep("returned delete"))
                => \A key \in DottedKeys, default \in Defaults :
                      ConfigGet(config', key, default)
                         = ConfigGet(config, key, default) ]_vars

====
